---- MODULE Spec2Model ----
(***************************************************************************)
(* MedBlock: the request pipeline in front of the user and patient stores. *)
(*                                                                         *)
(* Every request is a chain of middleware followed by a route handler.     *)
(* One action models one route: the whole chain and the whole handler,     *)
(* with the request drawn from small sets.  The routes over the user       *)
(* store (Spec) and the routes over the patient store (SpecPatients) are   *)
(* explored separately: no user route writes a patient and no patient      *)
(* route writes a user.  SpecAuthorize applies the authorize middleware    *)
(* to every request context, resolved or not.                              *)
(***************************************************************************)
EXTENDS Integers, Sequences, FiniteSets, TLC

VARIABLES users, usersBefore, patients, patientsBefore, last, call

vars == <<users, usersBefore, patients, patientsBefore, last, call>>

(***************************************************************************)
(* Values                                                                  *)
(***************************************************************************)

\* ObjectIds of the accounts that have ever been stored
Ids == {"a1", "b2"}

\* ObjectIds of the patient records that can be stored
PatientIds == {"p1", "p2"}

Roles == {"admin", "doctor", "nurse", "front-desk"}

Statuses == {"verified", "rejected", "unsubmitted", "pending"}

Departments == {"D1", "D2"}

\* null / undefined
Null == [null |-> TRUE]

\* a role that is missing or empty (falsy)
NoRole == ""

\* an optional body field: left out, or sent with a value
Absent == [given |-> FALSE]

Some(v) == [given |-> TRUE, value |-> v]

\* a path or body identifier as the client sends it: 24 hex digits in either
\* letter case, or something that is not an ObjectId at all
BadId == [hex |-> "zz", upper |-> FALSE, wellFormed |-> FALSE]

\* the path id or body of a request that was answered before anything read it
Unread == [hex |-> "", upper |-> FALSE, wellFormed |-> FALSE]

RawId(oid, up) == [hex |-> oid, upper |-> up, wellFormed |-> TRUE]

RawUserIds == {RawId(u, FALSE) : u \in Ids} \cup {RawId("a1", TRUE), BadId}

RawPatientIds == {RawId(p, FALSE) : p \in PatientIds} \cup {RawId("p1", TRUE), BadId}

\* ObjectId.prototype.toString(): always the lower-case hex form
toString(oid) == RawId(oid, FALSE)

\* mongoose.Types.ObjectId.isValid / validateObjectId
isValid(raw) == raw.wellFormed

\* the ObjectId a well-formed string is cast to by findById
castObjectId(raw) == raw.hex

(***************************************************************************)
(* Credentials                                                             *)
(***************************************************************************)

Bearer == <<"B", "e", "a", "r", "e", "r">>

Basic == <<"B", "a", "s", "i", "c">>

BearerX == <<"B", "e", "a", "r", "e", "r", "X">>

\* role of each account when its credential was issued (the state of Init)
RoleAtIssue(u) == IF u = "a1" THEN "admin" ELSE "doctor"

\* a signed credential of account u
Token(u, sig, expired) ==
  [userId |-> u, role |-> RoleAtIssue(u), sig |-> sig, expired |-> expired]

ValidToken(u) == Token(u, "valid", FALSE)

NoHeader == Null

\* the Authorization header "<scheme> <token>"; token Null is a header that
\* holds the scheme alone
Header(scheme, token) == [scheme |-> scheme, token |-> token]

Headers ==
  {NoHeader, Header(Bearer, Null)}
    \cup {Header(Bearer, ValidToken(u)) : u \in Ids}
    \cup {Header(Bearer, Token("a1", "forged", FALSE)),
          Header(Bearer, Token("a1", "valid", TRUE))}
    \cup {Header(s, ValidToken("a1")) : s \in {Basic, BearerX}}

\* String.prototype.startsWith on the header text
startsWith(h, prefix) ==
  /\ Len(h.scheme) >= Len(prefix)
  /\ SubSeq(h.scheme, 1, Len(prefix)) = prefix

\* authorization.split(' ')[1]
splitToken(h) == h.token

\* jwt.verify(token, secret): the decoded payload, or the error it throws
jwtVerify(token) ==
  IF token = Null THEN [ok |-> FALSE, name |-> "JsonWebTokenError"]
  ELSE IF token.sig # "valid" THEN [ok |-> FALSE, name |-> "JsonWebTokenError"]
  ELSE IF token.expired THEN [ok |-> FALSE, name |-> "TokenExpiredError"]
  ELSE [ok |-> TRUE, userId |-> token.userId, role |-> token.role]

\* User.findById(id) on a store
findById(store, id) == IF id \in DOMAIN store THEN store[id] ELSE Null

(***************************************************************************)
(* Middleware                                                              *)
(***************************************************************************)

\* outcome of a middleware: it answered with a status, or it called next()
\* with req.user as given
Answer(code, event) ==
  [next |-> FALSE, status |-> code, event |-> event, user |-> Null, userId |-> "none"]

Proceed(uid, rec) ==
  [next |-> TRUE, status |-> 0, event |-> "none", user |-> rec, userId |-> uid]

\* authenticate verifying with ignoreExpiration
authenticateIgnoresExpiry(h, store) ==
  IF h # NoHeader /\ startsWith(h, Bearer)
  THEN LET decoded == jwtVerify(splitToken(h))
       IN  IF ~decoded.ok /\ decoded.name # "TokenExpiredError"
           THEN Answer(401, decoded.name)
           ELSE IF findById(store, splitToken(h).userId) = Null
           THEN Answer(401, "user-not-found")
           ELSE Proceed(splitToken(h).userId, findById(store, splitToken(h).userId))
  ELSE Answer(401, "no-bearer-token")

\* authenticate taking the role from the decoded payload
authenticateTrustsPayload(h, store) ==
  IF h # NoHeader /\ startsWith(h, Bearer)
  THEN LET decoded == jwtVerify(splitToken(h))
       IN  IF ~decoded.ok THEN Answer(401, decoded.name)
           ELSE IF findById(store, decoded.userId) = Null THEN Answer(401, "user-not-found")
           ELSE Proceed(decoded.userId,
                        [findById(store, decoded.userId) EXCEPT !.role = decoded.role])
  ELSE Answer(401, "no-bearer-token")

\* authMiddleware.authenticate
authenticate(h, store) ==
  IF h # NoHeader /\ startsWith(h, Bearer)
  THEN LET decoded == jwtVerify(splitToken(h))
       IN  IF ~decoded.ok THEN Answer(401, decoded.name)
           ELSE IF findById(store, decoded.userId) = Null THEN Answer(401, "user-not-found")
           ELSE Proceed(decoded.userId, findById(store, decoded.userId))
  ELSE Answer(401, "no-bearer-token")

\* authorize answering a missing identity like a role mismatch
authorizeConflatesMissingUser(roles, reqUser) ==
  IF reqUser = Null \/ reqUser.role = NoRole THEN Answer(403, "forbidden")
  ELSE IF reqUser.role \notin roles THEN Answer(403, "forbidden")
  ELSE Proceed("none", reqUser)

\* authorize without the roles.includes test
authorizeAnyRole(roles, reqUser) ==
  IF reqUser = Null \/ reqUser.role = NoRole THEN Answer(500, "CRITICAL_ERROR")
  ELSE Proceed("none", reqUser)

\* authMiddleware.authorize(...roles), applied to req.user
authorize(roles, reqUser) ==
  IF reqUser = Null \/ reqUser.role = NoRole THEN Answer(500, "CRITICAL_ERROR")
  ELSE IF reqUser.role \notin roles THEN Answer(403, "forbidden")
  ELSE Proceed("none", reqUser)

\* middleware/auth.authenticateToken (Identity Resolver): also refuses an
\* account that is not active
authenticateToken(h, store) ==
  IF h = NoHeader \/ h.scheme # Bearer THEN Answer(401, "no-token")
  ELSE LET decoded == jwtVerify(splitToken(h))
       IN  IF ~decoded.ok THEN Answer(401, decoded.name)
           ELSE IF findById(store, decoded.userId) = Null THEN Answer(401, "user-missing")
           ELSE IF ~findById(store, decoded.userId).isActive THEN Answer(401, "user-inactive")
           ELSE Proceed(decoded.userId, findById(store, decoded.userId))

\* middleware/auth.requireRole(allowedRoles)
requireRole(allowedRoles, reqUser) ==
  IF reqUser = Null THEN Answer(401, "no-user")
  ELSE IF reqUser.role \notin allowedRoles THEN Answer(403, "forbidden")
  ELSE Proceed("none", reqUser)

\* middleware/auth.isGovernmentVerifiedProfessional
isGovernmentVerifiedProfessional(reqUser) ==
  IF reqUser.role \in {"doctor", "nurse"} /\ ~reqUser.isGovernmentVerified
  THEN Answer(403, "not-verified")
  ELSE Proceed("none", reqUser)

(***************************************************************************)
(* The user store                                                          *)
(***************************************************************************)

\* a User document, as far as the routes below read or write it
UserDoc(role, department, status) ==
  [role |-> role, isActive |-> TRUE, department |-> department,
   status |-> status, rejectionReason |-> Absent,
   verifiedBy |-> Absent, verificationDate |-> Absent,
   isGovernmentVerified |-> FALSE]

InitUsers ==
  [u \in Ids |-> IF u = "a1" THEN UserDoc("admin", "D1", "unsubmitted")
                 ELSE UserDoc("doctor", "D1", "pending")]

\* the request that was answered last, and its response
Response(route, h, id, code, ran, touched, returned) ==
  [route |-> route, header |-> h, id |-> id, status |-> code,
   handlerRan |-> ran, touched |-> touched, returned |-> returned,
   details |-> Null]

NoRequest == Response("none", NoHeader, Unread, 0, FALSE, FALSE, {})

\* a response sent by a middleware before the route handler
Refused(route, h, m) == Response(route, h, Unread, m.status, FALSE, FALSE, {})

\* what a route handler leaves behind: the store and its response
Result(store, code, touched, returned) ==
  [store |-> store, status |-> code, touched |-> touched, returned |-> returned,
   details |-> Null]

(***************************************************************************)
(* routes/adminRoutes.js                                                   *)
(***************************************************************************)

\* handler of GET /admin/admins
getAdminsHandler(store, reqUserId) ==
  Result(store, 200, TRUE,
         {u \in DOMAIN store : store[u] # Null /\ store[u].role = "admin"})

\* String.prototype.trim on the reasons a body can carry
trim(str) == IF str = " " THEN "" ELSE str

VerifyBodies ==
  [verificationStatus : {Some(st) : st \in Statuses \cup {"bogus"}},
   rejectionReason : {Absent}]
    \cup {[verificationStatus |-> Some("rejected"), rejectionReason |-> Some("because")],
          [verificationStatus |-> Some("rejected"), rejectionReason |-> Some(" ")],
          [verificationStatus |-> Some("verified"), rejectionReason |-> Some("because")],
          [verificationStatus |-> Absent, rejectionReason |-> Absent]}

\* the express-validator chains of PATCH verify-professional: TRUE when
\* validationResult(req) holds an error
verifyValidationErrors(body) ==
  \/ ~body.verificationStatus.given
  \/ body.verificationStatus.value \notin Statuses
  \/ /\ body.rejectionReason.given      \* optional(): skipped when undefined
     /\ body.verificationStatus.given
     /\ body.verificationStatus.value = "rejected"
     /\ trim(body.rejectionReason.value) = ""

\* the body after the sanitizers ran
verifySanitized(body) ==
  [body EXCEPT !.rejectionReason =
     IF body.rejectionReason.given THEN Some(trim(body.rejectionReason.value))
     ELSE Absent]

\* the handler leaving the stamps of an earlier verification in place
verifyProfessionalKeepsStamps(store, adminId, id, rawBody) ==
  LET body == verifySanitized(rawBody)
      verificationStatus == body.verificationStatus.value
      target == castObjectId(id)
      user == findById(store, target)
  IN  IF verifyValidationErrors(rawBody) THEN Result(store, 400, FALSE, {})
      ELSE IF ~isValid(id) THEN Result(store, 400, FALSE, {})
      ELSE IF toString(adminId) = id THEN Result(store, 400, FALSE, {})
      ELSE IF user = Null THEN Result(store, 404, TRUE, {})
      ELSE IF user.role \notin {"doctor", "nurse"} THEN Result(store, 400, TRUE, {})
      ELSE LET saved ==
                 [user EXCEPT
                    !.status = verificationStatus,
                    !.rejectionReason =
                       IF verificationStatus = "rejected" THEN body.rejectionReason
                       ELSE Absent,
                    !.isGovernmentVerified = (verificationStatus = "verified"),
                    !.verificationDate =
                       IF verificationStatus = "verified" THEN Some("now")
                       ELSE user.verificationDate,
                    !.verifiedBy =
                       IF verificationStatus = "verified" THEN Some(adminId)
                       ELSE user.verifiedBy]
           IN  Result([store EXCEPT ![target] = saved], 200, TRUE, {target})

\* the handler without the isGovernmentVerified update
verifyProfessionalKeepsFlag(store, adminId, id, rawBody) ==
  LET body == verifySanitized(rawBody)
      verificationStatus == body.verificationStatus.value
      target == castObjectId(id)
      user == findById(store, target)
  IN  IF verifyValidationErrors(rawBody) THEN Result(store, 400, FALSE, {})
      ELSE IF ~isValid(id) THEN Result(store, 400, FALSE, {})
      ELSE IF toString(adminId) = id THEN Result(store, 400, FALSE, {})
      ELSE IF user = Null THEN Result(store, 404, TRUE, {})
      ELSE IF user.role \notin {"doctor", "nurse"} THEN Result(store, 400, TRUE, {})
      ELSE Result([store EXCEPT ![target] = [user EXCEPT !.status = verificationStatus]],
                  200, TRUE, {target})

\* handler of PATCH /admin/users/:id/verify-professional
verifyProfessionalHandler(store, adminId, id, rawBody) ==
  LET body == verifySanitized(rawBody)
      verificationStatus == body.verificationStatus.value
      target == castObjectId(id)
      user == findById(store, target)
  IN  IF verifyValidationErrors(rawBody) THEN Result(store, 400, FALSE, {})
      ELSE IF ~isValid(id) THEN Result(store, 400, FALSE, {})
      ELSE IF toString(adminId) = id THEN Result(store, 400, FALSE, {})
      ELSE IF user = Null THEN Result(store, 404, TRUE, {})
      ELSE IF user.role \notin {"doctor", "nurse"} THEN Result(store, 400, TRUE, {})
      ELSE LET saved ==
                 [user EXCEPT
                    !.status = verificationStatus,
                    !.rejectionReason =
                       IF verificationStatus = "rejected" THEN body.rejectionReason
                       ELSE Absent,
                    !.isGovernmentVerified = (verificationStatus = "verified"),
                    !.verificationDate =
                       IF verificationStatus = "verified" THEN Some("now") ELSE Absent,
                    !.verifiedBy =
                       IF verificationStatus = "verified" THEN Some(adminId) ELSE Absent]
           IN  Result([store EXCEPT ![target] = saved], 200, TRUE, {target})

\* handler of DELETE /admin/users/:id
deleteAdminUserHandler(store, reqUserId, id) ==
  IF toString(reqUserId) = id THEN Result(store, 400, FALSE, {})
  ELSE IF ~isValid(id) THEN Result(store, 500, TRUE, {})     \* CastError, caught
  ELSE IF findById(store, castObjectId(id)) = Null THEN Result(store, 404, TRUE, {})
  ELSE Result([store EXCEPT ![castObjectId(id)] = Null], 200, TRUE, {})

\* the response of a route whose handler ran, and the store it left
Handled(route, h, id, r) ==
  /\ users' = r.store
  /\ last' = Response(route, h, id, r.status, TRUE, r.touched, r.returned)

\* the response of a middleware that answered before the handler
Rejected(route, h, m) ==
  /\ users' = users
  /\ last' = Refused(route, h, m)

\* a request to the user routes leaves the patient store alone
UserRequest ==
  /\ usersBefore' = users
  /\ UNCHANGED <<patients, patientsBefore, call>>

\* any route mounted behind authenticate, when authenticate answers itself
AuthenticateRefuses ==
  \E h \in Headers :
    /\ ~authenticate(h, users).next
    /\ UserRequest
    /\ Rejected("behind authenticate", h, authenticate(h, users))

GetAdmins ==
  \E h \in Headers :
    LET a == authenticate(h, users)
        z == authorize({"admin"}, a.user)
    IN  /\ a.next
        /\ UserRequest
        /\ IF ~z.next THEN Rejected("GET /admin/admins", h, z)
           ELSE Handled("GET /admin/admins", h, Unread,
                        getAdminsHandler(users, a.userId))

PatchVerifyProfessional ==
  \E h \in Headers :
    LET a == authenticate(h, users)
        z == authorize({"admin"}, a.user)
    IN  /\ a.next
        /\ UserRequest
        /\ IF ~z.next
           THEN Rejected("PATCH /admin/users/:id/verify-professional", h, z)
           ELSE \E id \in RawUserIds, body \in VerifyBodies :
                  Handled("PATCH /admin/users/:id/verify-professional", h, id,
                          verifyProfessionalHandler(users, a.userId, id, body))

DeleteAdminUser ==
  \E h \in Headers :
    LET a == authenticate(h, users)
        z == authorize({"admin"}, a.user)
    IN  /\ a.next
        /\ UserRequest
        /\ IF ~z.next THEN Rejected("DELETE /admin/users/:id", h, z)
           ELSE \E id \in RawUserIds :
                  Handled("DELETE /admin/users/:id", h, id,
                          deleteAdminUserHandler(users, a.userId, id))

(***************************************************************************)
(* routes/users.js                                                         *)
(***************************************************************************)

\* handler of GET /users/:id
getUserHandler(store, reqUserId, id) ==
  IF id # toString(reqUserId) /\ store[reqUserId].role # "admin"
  THEN Result(store, 403, FALSE, {})
  ELSE IF ~isValid(id) THEN Result(store, 500, TRUE, {})      \* CastError, caught
  ELSE IF findById(store, castObjectId(id)) = Null THEN Result(store, 404, TRUE, {})
  ELSE Result(store, 200, TRUE, {castObjectId(id)})

\* the bodies of PUT /users/:id: the valid ones with an address of their
\* own, one that fails validateUser, and one whose address ("taken") is that
\* of the stored accounts other than the target
UserBodies ==
  [valid : {TRUE}, email : {"fresh"}, role : {"admin", "doctor", "nurse"},
   isActive : {Absent, Some(TRUE), Some(FALSE)}]
    \cup {[valid |-> FALSE, email |-> "fresh", role |-> "bogus", isActive |-> Absent],
          [valid |-> TRUE, email |-> "taken", role |-> "doctor", isActive |-> Absent]}

\* User.findOne for another account with the email of the body
existingUser(store, body, self) ==
  /\ body.email = "taken"
  /\ \E w \in DOMAIN store : w # self /\ store[w] # Null

\* handler of PUT /users/:id
putUserHandler(store, reqUserId, id, body) ==
  LET reqUser == store[reqUserId]
      target == castObjectId(id)
      user == findById(store, target)
  IN  IF ~body.valid THEN Result(store, 400, FALSE, {})
      ELSE IF id # toString(reqUserId) /\ reqUser.role # "admin"
      THEN Result(store, 403, FALSE, {})
      ELSE IF ~isValid(id) THEN Result(store, 500, TRUE, {})  \* CastError, caught
      ELSE IF user = Null THEN Result(store, 404, TRUE, {})
      ELSE IF existingUser(store, body, target) THEN Result(store, 400, TRUE, {})
      ELSE LET saved ==
                 IF reqUser.role = "admin"
                 THEN [user EXCEPT
                         !.role = body.role,
                         !.isActive = IF body.isActive.given THEN body.isActive.value
                                      ELSE user.isActive]
                 ELSE user
           IN  Result([store EXCEPT ![target] = saved], 200, TRUE, {target})

\* handler of DELETE /users/:id
deleteUserHandler(store, reqUserId, id) ==
  LET target == castObjectId(id)
      user == findById(store, target)
  IN  IF ~isValid(id) THEN Result(store, 500, TRUE, {})       \* CastError, caught
      ELSE IF user = Null THEN Result(store, 404, TRUE, {})
      ELSE IF toString(target) = toString(reqUserId) THEN Result(store, 400, TRUE, {})
      ELSE Result([store EXCEPT ![target] = [user EXCEPT !.isActive = FALSE]],
                  200, TRUE, {})

\* any route of routes/users.js, when authenticateToken answers itself
AuthenticateTokenRefuses ==
  \E h \in Headers :
    /\ ~authenticateToken(h, users).next
    /\ UserRequest
    /\ Rejected("behind authenticateToken", h, authenticateToken(h, users))

GetUser ==
  \E h \in Headers :
    LET a == authenticateToken(h, users)
    IN  /\ a.next
        /\ UserRequest
        /\ \E id \in RawUserIds :
             Handled("GET /users/:id", h, id, getUserHandler(users, a.userId, id))

PutUser ==
  \E h \in Headers :
    LET a == authenticateToken(h, users)
    IN  /\ a.next
        /\ UserRequest
        /\ \E id \in RawUserIds, body \in UserBodies :
             Handled("PUT /users/:id", h, id,
                     putUserHandler(users, a.userId, id, body))

DeleteUser ==
  \E h \in Headers :
    LET a == authenticateToken(h, users)
        z == requireRole({"admin"}, a.user)
    IN  /\ a.next
        /\ UserRequest
        /\ IF ~z.next THEN Rejected("DELETE /users/:id", h, z)
           ELSE \E id \in RawUserIds :
                  Handled("DELETE /users/:id", h, id,
                          deleteUserHandler(users, a.userId, id))

(***************************************************************************)
(* A route behind the professional-verification gate                       *)
(***************************************************************************)

\* authenticate, isGovernmentVerifiedProfessional, then the operation
SensitiveOperation ==
  \E h \in Headers :
    LET a == authenticate(h, users)
        g == isGovernmentVerifiedProfessional(a.user)
    IN  /\ a.next
        /\ UserRequest
        /\ IF ~g.next THEN Rejected("sensitive operation", h, g)
           ELSE Handled("sensitive operation", h, Unread,
                        Result(users, 200, FALSE, {}))

(***************************************************************************)
(* Specification of the routes over the user store                         *)
(***************************************************************************)

Init ==
  /\ users = InitUsers
  /\ usersBefore = InitUsers
  /\ patients = [p \in PatientIds |-> Null]
  /\ patientsBefore = [p \in PatientIds |-> Null]
  /\ last = NoRequest
  /\ call = Null

Next ==
  \/ AuthenticateRefuses
  \/ AuthenticateTokenRefuses
  \/ GetAdmins
  \/ PatchVerifyProfessional
  \/ DeleteAdminUser
  \/ GetUser
  \/ PutUser
  \/ DeleteUser
  \/ SensitiveOperation

Spec == Init /\ [][Next]_vars

(***************************************************************************)
(* The patient store and its routes                                        *)
(***************************************************************************)

\* a Patient document, as far as the routes below read or write it;
\* department is the departmentId of the record's resource descriptor
PatientDoc(creator, department) ==
  [isActive |-> TRUE, createdBy |-> creator, department |-> department,
   updatedBy |-> Absent,
   phoneNumber |-> "0712345678", email |-> "jane@example.org",
   nationalId |-> "12345678"]

\* Patient.getSummary(): the identifying fields it copies into a response;
\* the national identifier is not among its keys
getSummary(patient) ==
  [phoneNumber |-> Some(patient.phoneNumber), email |-> Some(patient.email),
   nationalId |-> Absent, isActive |-> patient.isActive]

\* middleware/auth.canAccessPatient(patientIdParam)
canAccessPatient(reqUserId, reqUser, id, store) ==
  LET patient == findById(store, castObjectId(id))
  IN  IF ~isValid(id) THEN Answer(400, "invalid-id")
      ELSE IF patient = Null THEN Answer(404, "not-found")
      ELSE IF reqUser.role \in {"admin", "doctor"} THEN Proceed(reqUserId, reqUser)
      ELSE IF reqUser.role = "nurse" /\ patient.department = reqUser.department
      THEN Proceed(reqUserId, reqUser)
      ELSE IF reqUser.role = "front-desk" /\ patient.createdBy = reqUserId
      THEN Proceed(reqUserId, reqUser)
      ELSE Answer(403, "forbidden")

\* the isActive filter of the list query: left out, 'true' or 'false'
ListQueries == {Absent, Some(TRUE), Some(FALSE)}

\* handler of GET /patients
getPatientsHandler(store, query) ==
  LET found == {p \in DOMAIN store :
                  /\ store[p] # Null
                  /\ query.given => store[p].isActive = query.value}
  IN  [Result(store, 200, TRUE, found)
         EXCEPT !.details = [p \in found |-> getSummary(store[p])]]

\* handler of GET /patients/:id
getPatientHandler(store, id) ==
  IF ~isValid(id) THEN Result(store, 400, FALSE, {})
  ELSE IF findById(store, castObjectId(id)) = Null THEN Result(store, 404, TRUE, {})
  ELSE [Result(store, 200, TRUE, {castObjectId(id)})
          EXCEPT !.details =
            [p \in {castObjectId(id)} |-> getSummary(store[p])]]

\* the bodies of POST /patients: one that fails validatePatient, one whose
\* national id, email or phone is that of a stored patient, and the valid
\* ones with the department they are for
NewPatientBodies ==
  [valid : {TRUE}, contact : {"fresh"}, department : Departments, isActive : {Absent}]
    \cup {[valid |-> FALSE, contact |-> "fresh", department |-> "D1", isActive |-> Absent],
          [valid |-> TRUE, contact |-> "taken", department |-> "D1", isActive |-> Absent]}

\* the bodies of PUT and PATCH /patients/:id: whether validatePatient
\* accepts it, and the isActive key it may carry
PatientBodies ==
  [valid : BOOLEAN, isActive : {Absent, Some(TRUE), Some(FALSE)}]

\* Patient.findOne for a patient with the national id, email or phone of the body
existingPatient(store, body) ==
  /\ body.contact = "taken"
  /\ \E p \in DOMAIN store : store[p] # Null

\* the ObjectId a new document gets
newPatientId(store) == CHOOSE p \in DOMAIN store : store[p] = Null

\* handler of POST /patients
postPatientHandler(store, reqUserId, body) ==
  IF ~body.valid THEN Result(store, 400, FALSE, {})
  ELSE IF existingPatient(store, body) THEN Result(store, 400, TRUE, {})
  ELSE LET created ==
             [PatientDoc(reqUserId, body.department) EXCEPT
                !.isActive = IF body.isActive.given THEN body.isActive.value ELSE TRUE]
       IN  Result([store EXCEPT ![newPatientId(store)] = created], 201, TRUE,
                  {newPatientId(store)})

\* Object.assign(patient, req.body), and the key loop of PATCH
assignBody(patient, body) ==
  [patient EXCEPT !.isActive = IF body.isActive.given THEN body.isActive.value
                               ELSE patient.isActive]

\* handler of PUT /patients/:id
putPatientHandler(store, reqUserId, id, body) ==
  LET patient == findById(store, castObjectId(id))
  IN  IF ~isValid(id) THEN Result(store, 400, FALSE, {})
      ELSE IF ~body.valid THEN Result(store, 400, FALSE, {})
      ELSE IF patient = Null THEN Result(store, 404, TRUE, {})
      ELSE Result([store EXCEPT ![castObjectId(id)] =
                     [assignBody(patient, body) EXCEPT !.updatedBy = Some(reqUserId)]],
                  200, TRUE, {castObjectId(id)})

\* handler of PATCH /patients/:id
patchPatientHandler(store, reqUserId, id, body) ==
  LET patient == findById(store, castObjectId(id))
  IN  IF ~isValid(id) THEN Result(store, 400, FALSE, {})
      ELSE IF patient = Null THEN Result(store, 404, TRUE, {})
      ELSE Result([store EXCEPT ![castObjectId(id)] =
                     [assignBody(patient, body) EXCEPT !.updatedBy = Some(reqUserId)]],
                  200, TRUE, {castObjectId(id)})

\* DELETE /patients/:id removing the document
deletePatientHandlerRemoves(store, reqUserId, id) ==
  LET patient == findById(store, castObjectId(id))
  IN  IF ~isValid(id) THEN Result(store, 400, FALSE, {})
      ELSE IF patient = Null THEN Result(store, 404, TRUE, {})
      ELSE Result([store EXCEPT ![castObjectId(id)] = Null], 200, TRUE, {})

\* handler of DELETE /patients/:id
deletePatientHandler(store, reqUserId, id) ==
  LET patient == findById(store, castObjectId(id))
  IN  IF ~isValid(id) THEN Result(store, 400, FALSE, {})
      ELSE IF patient = Null THEN Result(store, 404, TRUE, {})
      ELSE Result([store EXCEPT ![castObjectId(id)] =
                     [patient EXCEPT !.isActive = FALSE, !.updatedBy = Some(reqUserId)]],
                  200, TRUE, {})

\* most ids in the ids array of DELETE /patients/bulk
MaxBulk == 2

\* the ids arrays of DELETE /patients/bulk
BulkIds == {ids \in SUBSET RawPatientIds : Cardinality(ids) <= MaxBulk}

\* Patient.updateMany({_id: {$in: validIds}}, {$set: {isActive: false}}):
\* the documents it matches
bulkMatched(store, validIds) ==
  {p \in DOMAIN store : store[p] # Null /\ \E id \in validIds : castObjectId(id) = p}

\* handler of DELETE /patients/bulk
deleteBulkHandler(store, ids) ==
  LET validIds == {id \in ids : isValid(id)}
      invalidIds == {id \in ids : ~isValid(id)}
      matched == bulkMatched(store, validIds)
      modifiedCount == Cardinality({p \in matched : store[p].isActive})
  IN  IF ids = {} THEN Result(store, 400, FALSE, {})
      ELSE IF validIds = {} THEN Result(store, 400, FALSE, {})
      ELSE [Result([p \in DOMAIN store |->
                      IF p \in matched THEN [store[p] EXCEPT !.isActive = FALSE]
                      ELSE store[p]],
                   200, TRUE, {})
              EXCEPT !.details =
                [deactivatedCount |-> modifiedCount,
                 notFoundCount |-> Cardinality(validIds) - modifiedCount,
                 invalidIdCount |-> Cardinality(invalidIds)]]

\* the response of a patient route whose handler ran, and the store it left
HandledPatient(route, h, id, r) ==
  /\ patients' = r.store
  /\ last' = [Response(route, h, id, r.status, TRUE, r.touched, r.returned)
                EXCEPT !.details = r.details]

\* the response of a middleware that answered before the patient handler
RejectedPatient(route, h, m) ==
  /\ patients' = patients
  /\ last' = Refused(route, h, m)

\* a request to the patient routes leaves the user store alone
PatientRequest ==
  /\ patientsBefore' = patients
  /\ UNCHANGED <<users, usersBefore, call>>

\* any patient route, when authenticateToken answers itself
PatientsAuthRefuses ==
  \E h \in Headers :
    /\ ~authenticateToken(h, users).next
    /\ PatientRequest
    /\ RejectedPatient("behind authenticateToken", h, authenticateToken(h, users))

GetPatients ==
  \E h \in Headers :
    LET a == authenticateToken(h, users)
        z == requireRole({"admin", "doctor", "nurse"}, a.user)
    IN  /\ a.next
        /\ PatientRequest
        /\ IF ~z.next THEN RejectedPatient("GET /patients", h, z)
           ELSE \E query \in ListQueries :
                  HandledPatient("GET /patients", h, Unread,
                                 getPatientsHandler(patients, query))

GetPatient ==
  \E h \in Headers :
    LET a == authenticateToken(h, users)
    IN  /\ a.next
        /\ PatientRequest
        /\ \E id \in RawPatientIds :
             LET c == canAccessPatient(a.userId, a.user, id, patients)
             IN  IF ~c.next
                 THEN patients' = patients
                      /\ last' = [Refused("GET /patients/:id", h, c) EXCEPT !.id = id]
                 ELSE HandledPatient("GET /patients/:id", h, id,
                                     getPatientHandler(patients, id))

PostPatient ==
  \E h \in Headers :
    LET a == authenticateToken(h, users)
        z == requireRole({"admin", "doctor", "nurse"}, a.user)
    IN  /\ a.next
        /\ PatientRequest
        /\ \E p \in PatientIds : patients[p] = Null
        /\ IF ~z.next THEN RejectedPatient("POST /patients", h, z)
           ELSE \E body \in NewPatientBodies :
                  HandledPatient("POST /patients", h, Unread,
                                 postPatientHandler(patients, a.userId, body))

PutPatient ==
  \E h \in Headers :
    LET a == authenticateToken(h, users)
    IN  /\ a.next
        /\ PatientRequest
        /\ \E id \in RawPatientIds :
             LET c == canAccessPatient(a.userId, a.user, id, patients)
             IN  IF ~c.next
                 THEN patients' = patients
                      /\ last' = [Refused("PUT /patients/:id", h, c) EXCEPT !.id = id]
                 ELSE \E body \in PatientBodies :
                        HandledPatient("PUT /patients/:id", h, id,
                                       putPatientHandler(patients, a.userId, id, body))

PatchPatient ==
  \E h \in Headers :
    LET a == authenticateToken(h, users)
    IN  /\ a.next
        /\ PatientRequest
        /\ \E id \in RawPatientIds :
             LET c == canAccessPatient(a.userId, a.user, id, patients)
             IN  IF ~c.next
                 THEN patients' = patients
                      /\ last' = [Refused("PATCH /patients/:id", h, c) EXCEPT !.id = id]
                 ELSE \E body \in {b \in PatientBodies : b.valid} :
                        HandledPatient("PATCH /patients/:id", h, id,
                                       patchPatientHandler(patients, a.userId, id, body))

DeletePatientsBulk ==
  \E h \in Headers :
    LET a == authenticateToken(h, users)
        z == requireRole({"admin"}, a.user)
    IN  /\ a.next
        /\ PatientRequest
        /\ IF ~z.next THEN RejectedPatient("DELETE /patients/bulk", h, z)
           ELSE \E ids \in BulkIds :
                  HandledPatient("DELETE /patients/bulk", h, Unread,
                                 deleteBulkHandler(patients, ids))

DeletePatient ==
  \E h \in Headers :
    LET a == authenticateToken(h, users)
        z == requireRole({"admin"}, a.user)
    IN  /\ a.next
        /\ PatientRequest
        /\ IF ~z.next THEN RejectedPatient("DELETE /patients/:id", h, z)
           ELSE \E id \in RawPatientIds :
                  LET c == canAccessPatient(a.userId, a.user, id, patients)
                  IN  IF ~c.next
                      THEN patients' = patients
                           /\ last' = [Refused("DELETE /patients/:id", h, c)
                                         EXCEPT !.id = id]
                      ELSE HandledPatient("DELETE /patients/:id", h, id,
                                          deletePatientHandler(patients, a.userId, id))

\* the accounts the patient routes are called by: an admin, and a doctor, a
\* nurse of either department or a front-desk clerk
PatientCallers ==
  {[u \in Ids |-> IF u = "a1" THEN UserDoc("admin", "D1", "unsubmitted")
                  ELSE UserDoc(c[1], c[2], "unsubmitted")] :
     c \in {<<"doctor", "D1">>, <<"nurse", "D1">>, <<"nurse", "D2">>,
            <<"front-desk", "D1">>}}

InitPatients ==
  /\ users \in PatientCallers
  /\ usersBefore = users
  /\ patients \in {[p \in PatientIds |->
                       IF p = "p1" THEN PatientDoc(c, "D1") ELSE Null] : c \in Ids}
  /\ patientsBefore = patients
  /\ last = NoRequest
  /\ call = Null

NextPatients ==
  \/ PatientsAuthRefuses
  \/ GetPatients
  \/ GetPatient
  \/ PostPatient
  \/ PutPatient
  \/ PatchPatient
  \/ DeletePatientsBulk
  \/ DeletePatient

SpecPatients == InitPatients /\ [][NextPatients]_vars

(***************************************************************************)
(* The authorize middleware on its own                                     *)
(***************************************************************************)

\* the request contexts authorize can be handed: no req.user at all, a user
\* without a role, a user of each role
RequestUsers ==
  {Null} \cup {UserDoc(r, "D1", "unsubmitted") : r \in Roles \cup {NoRole}}

\* the role lists a route can be guarded with
RoleLists == SUBSET Roles \ {{}}

InitAuthorize ==
  /\ users = InitUsers
  /\ usersBefore = InitUsers
  /\ patients = [p \in PatientIds |-> Null]
  /\ patientsBefore = [p \in PatientIds |-> Null]
  /\ last = NoRequest
  /\ call \in [roles : RoleLists, user : RequestUsers, result : {Null}]

\* authorize(...roles)(req, res, next)
Authorize ==
  /\ call.result = Null
  /\ call' = [call EXCEPT !.result = authorize(call.roles, call.user)]
  /\ UNCHANGED <<users, usersBefore, patients, patientsBefore, last>>

NextAuthorize == Authorize

SpecAuthorize == InitAuthorize /\ [][NextAuthorize]_vars

(***************************************************************************)
(* routes/auth.js: registration and the caller's own profile               *)
(***************************************************************************)

\* the bodies of POST /auth/register: the valid ones with the role and the
\* license they carry and a professionalVerification key they may smuggle
\* in, one that fails validateRegister, and one whose email or phone is that
\* of a stored account
RegisterBodies ==
  [valid : {TRUE}, email : {"fresh"}, role : Roles,
   licenseNumber : {Absent, Some("L1")},
   professionalVerification : {Absent, Some("verified")}]
    \cup {[valid |-> FALSE, email |-> "fresh", role |-> "bogus",
           licenseNumber |-> Absent, professionalVerification |-> Absent],
          [valid |-> TRUE, email |-> "taken", role |-> "doctor",
           licenseNumber |-> Absent, professionalVerification |-> Absent]}

\* the verification status a new account is saved with
initialStatus(role, licenseNumber) ==
  IF role \in {"doctor", "nurse"} /\ licenseNumber.given THEN "pending"
  ELSE "unsubmitted"

\* the ObjectId a new User document gets
newUserId(store) == CHOOSE u \in DOMAIN store : store[u] = Null

\* registration copying the whole body into the new document
registerAssignsBody(store, body) ==
  IF ~body.valid THEN Result(store, 400, FALSE, {})
  ELSE IF existingUser(store, body, "none") THEN Result(store, 400, TRUE, {})
  ELSE Result([store EXCEPT ![newUserId(store)] =
                 UserDoc(body.role, "D1",
                         IF body.professionalVerification.given
                         THEN body.professionalVerification.value
                         ELSE initialStatus(body.role, body.licenseNumber))],
              201, TRUE, {newUserId(store)})

\* handler of POST /auth/register
registerHandler(store, body) ==
  IF ~body.valid THEN Result(store, 400, FALSE, {})
  ELSE IF existingUser(store, body, "none") THEN Result(store, 400, TRUE, {})
  ELSE Result([store EXCEPT ![newUserId(store)] =
                 UserDoc(body.role, "D1", initialStatus(body.role, body.licenseNumber))],
              201, TRUE, {newUserId(store)})

\* the bodies of PUT /auth/me: whether the validators accept it, and a
\* professionalVerification key it may smuggle in
MeBodies ==
  [valid : BOOLEAN, professionalVerification : {Absent, Some("verified")}]

\* handler of PUT /auth/me: fullName, phone and address are all it copies
putMeHandler(store, reqUserId, body) ==
  IF ~body.valid THEN Result(store, 400, FALSE, {})
  ELSE Result(store, 200, TRUE, {reqUserId})

Register ==
  /\ \E u \in Ids : users[u] = Null
  /\ UserRequest
  /\ \E body \in RegisterBodies :
       Handled("POST /auth/register", NoHeader, Unread, registerHandler(users, body))

PutMe ==
  \E h \in Headers :
    LET a == authenticateToken(h, users)
    IN  /\ a.next
        /\ UserRequest
        /\ \E body \in MeBodies :
             Handled("PUT /auth/me", h, Unread, putMeHandler(users, a.userId, body))

\* one admin is stored and the other account is yet to register
InitAuth ==
  /\ users = [u \in Ids |-> IF u = "a1" THEN UserDoc("admin", "D1", "unsubmitted")
                            ELSE Null]
  /\ usersBefore = users
  /\ patients = [p \in PatientIds |-> Null]
  /\ patientsBefore = [p \in PatientIds |-> Null]
  /\ last = NoRequest
  /\ call = Null

NextAuth ==
  \/ Register
  \/ PutMe
  \/ PutUser
  \/ PatchVerifyProfessional
  \/ AuthenticateRefuses
  \/ AuthenticateTokenRefuses

SpecAuth == InitAuth /\ [][NextAuth]_vars

(***************************************************************************)
(* The query a list route hands to the store                               *)
(***************************************************************************)

\* a query-string value: the digits of an integer, a decimal fraction such
\* as "2.5" (n is its integer part), or text that does not start with digits
IntText(n) == [kind |-> "int", n |-> n]

FractionText(n) == [kind |-> "fraction", n |-> n]

OtherText == [kind |-> "text", n |-> 0]

\* req.query.page and req.query.limit
PageParams ==
  {Absent, Some(OtherText), Some(FractionText(2))}
    \cup {Some(IntText(n)) : n \in {-1, 0, 1, 2}}

LimitParams ==
  {Absent, Some(OtherText), Some(FractionText(2))}
    \cup {Some(IntText(n)) : n \in {-5, 0, 1, 100, 101}}

\* the other keys a query string can carry
FilterKeys == {"county", "isActive", "role", "gender", "password"}

\* a sort field the query string may name
SortParams == {Absent, Some("createdAt"), Some("password")}

\* parseInt(value): NaN for undefined and for text without leading digits
parseInt(param) ==
  IF ~param.given \/ param.value.kind = "text" THEN [nan |-> TRUE, n |-> 0]
  ELSE [nan |-> FALSE, n |-> param.value.n]

\* parsed || fallback: NaN and 0 are falsy
orDefault(parsed, fallback) ==
  IF parsed.nan \/ parsed.n = 0 THEN fallback ELSE parsed.n

DefaultPage == 1

DefaultLimit == 20

\* the query keys each list route reads into its predicate
readKeys(route) ==
  IF route = "GET /patients" THEN {"county", "gender", "isActive"}
  ELSE {"role", "county", "isActive"}

\* the fixed sort of each list route
fixedSort(route) == IF route = "GET /patients" THEN "createdAt" ELSE "fullName"

\* the handlers of GET /patients and GET /users up to the store call: the
\* store rejects a negative skip and the catch block answers 500
listQuery(route, q) ==
  LET page == orDefault(parseInt(q.page), DefaultPage)
      limit == orDefault(parseInt(q.limit), DefaultLimit)
      skip == (page - 1) * limit
  IN  [status |-> IF skip < 0 THEN 500 ELSE 200,
       page |-> page, limit |-> limit, skip |-> skip,
       predicate |-> q.filters \cap readKeys(route),
       sort |-> fixedSort(route)]

InitList ==
  /\ users = InitUsers
  /\ usersBefore = InitUsers
  /\ patients = [p \in PatientIds |-> Null]
  /\ patientsBefore = [p \in PatientIds |-> Null]
  /\ last = NoRequest
  /\ call \in [route : {"GET /patients", "GET /users"},
               page : PageParams, limit : LimitParams,
               filters : SUBSET FilterKeys, sort : SortParams,
               result : {Null}]

\* a list request of an identity that passed the middleware of the route
ListQuery ==
  /\ call.result = Null
  /\ call' = [call EXCEPT !.result = listQuery(call.route, call)]
  /\ UNCHANGED <<users, usersBefore, patients, patientsBefore, last>>

NextList == ListQuery

SpecList == InitList /\ [][NextList]_vars

(***************************************************************************)
(* Create requests in flight together                                      *)
(***************************************************************************)

\* most create requests in flight together
MaxRequests == 2

Requests == 1..MaxRequests

CreateRoutes == {"POST /users", "POST /auth/register", "POST /patients"}

\* values of the unique field of a body (email, national id)
UniqueKeys == {"k1", "k2"}

\* the collection a create route saves into
collection(route) == IF route = "POST /patients" THEN "patients" ELSE "users"

\* the findOne pre-check of a create handler: it answers 400 itself, or
\* the handler goes on to build and save the document
preCheck(stored, route, key) ==
  IF <<collection(route), key>> \in stored
  THEN [pc |-> "answered", route |-> route, key |-> key, collided |-> TRUE,
        status |-> 400, body |-> "already exists"]
  ELSE [pc |-> "checked", route |-> route, key |-> key, collided |-> FALSE,
        status |-> 0, body |-> "none"]

\* document.save() and what follows: the unique index refuses a second
\* document with the key, and the catch block answers with error.message
saveNew(stored, req) ==
  IF <<collection(req.route), req.key>> \in stored
  THEN [req EXCEPT !.pc = "answered", !.collided = TRUE, !.status = 500,
                   !.body = "E11000 duplicate key error"]
  ELSE [req EXCEPT !.pc = "answered", !.status = 201, !.body = "created"]

InitCreate ==
  /\ users = InitUsers
  /\ usersBefore = InitUsers
  /\ patients = [p \in PatientIds |-> Null]
  /\ patientsBefore = [p \in PatientIds |-> Null]
  /\ last = NoRequest
  /\ call = [stored |-> {}, requests |-> [r \in Requests |-> Null]]

\* a create handler from its start to the await of the save
CreateBegin ==
  \E r \in Requests, route \in CreateRoutes, key \in UniqueKeys :
    /\ call.requests[r] = Null
    /\ call' = [call EXCEPT !.requests[r] = preCheck(call.stored, route, key)]
    /\ UNCHANGED <<users, usersBefore, patients, patientsBefore, last>>

\* the save of a create handler and its response
CreateSave ==
  \E r \in Requests :
    /\ call.requests[r] # Null
    /\ call.requests[r].pc = "checked"
    /\ LET req == saveNew(call.stored, call.requests[r])
       IN  call' = [call EXCEPT
                      !.requests[r] = req,
                      !.stored = IF req.status = 201
                                 THEN @ \cup {<<collection(req.route), req.key>>}
                                 ELSE @]
    /\ UNCHANGED <<users, usersBefore, patients, patientsBefore, last>>

NextCreate == CreateBegin \/ CreateSave

SpecCreate == InitCreate /\ [][NextCreate]_vars

(***************************************************************************)
(* The audit call that follows a saved mutation                            *)
(***************************************************************************)

\* the routes that call logger.audit between the save and the response
AuditedRoutes ==
  {"PATCH /admin/users/:id/verify-professional", "DELETE /admin/users/:id",
   "POST /users", "PUT /users/:id", "DELETE /users/:id",
   "POST /auth/register", "PUT /auth/me",
   "POST /patients", "PUT /patients/:id", "PATCH /patients/:id",
   "DELETE /patients/:id", "DELETE /patients/bulk"}

\* the status a create route answers with when nothing throws
successStatus(route) ==
  IF route \in {"POST /users", "POST /auth/register", "POST /patients"} THEN 201
  ELSE 200

\* the tail of a mutating handler: await save(), logger.audit(...),
\* res.json(...), all inside one try block whose catch block answers 500
\* (verify-professional answers a duplicate-key error with 400)
saveAuditRespond(route, save, audit) ==
  IF save # "saved"
  THEN [saved |-> FALSE, audited |-> FALSE,
        status |-> IF /\ route = "PATCH /admin/users/:id/verify-professional"
                      /\ save = "duplicate-key"
                   THEN 400 ELSE 500]
  ELSE IF audit = "throws"
  THEN [saved |-> TRUE, audited |-> FALSE, status |-> 500]
  ELSE [saved |-> TRUE, audited |-> audit = "logged", status |-> successStatus(route)]

InitAudit ==
  /\ users = InitUsers
  /\ usersBefore = InitUsers
  /\ patients = [p \in PatientIds |-> Null]
  /\ patientsBefore = [p \in PatientIds |-> Null]
  /\ last = NoRequest
  /\ call \in [route : AuditedRoutes,
               \* the save succeeds, or it throws a duplicate-key error or
               \* another store error
               save : {"saved", "duplicate-key", "store-error"},
               \* the audit call returns, it throws into the handler, or it
               \* fails after it returned (a promise nobody awaits)
               audit : {"logged", "throws", "fails-later"},
               result : {Null}]

\* a mutating request that passed its middleware, lookups and validation
MutationRequest ==
  /\ call.result = Null
  /\ call' = [call EXCEPT !.result = saveAuditRespond(call.route, call.save, call.audit)]
  /\ UNCHANGED <<users, usersBefore, patients, patientsBefore, last>>

SpecAudit == InitAudit /\ [][MutationRequest]_vars

(***************************************************************************)
(* What authenticate writes to the log                                     *)
(***************************************************************************)

\* authenticate logging the token it could not verify
authenticateLogKeepsToken(h, store) ==
  IF h # NoHeader /\ startsWith(h, Bearer)
  THEN LET token == splitToken(h)
           decoded == jwtVerify(token)
           jwtDecoded ==
             [level |-> "debug", message |-> "JWT Decoded Successfully",
              fields |-> {[key |-> "decoded",
                           value |-> [userId |-> decoded.userId, role |-> decoded.role]]}]
       IN  IF ~decoded.ok
           THEN << [level |-> "error",
                    message |-> "SECURITY_EVENT: Token verification failed.",
                    fields |->
                      {[key |-> "tokenProvided", value |-> token],
                       [key |-> "error",
                        value |-> [text |-> IF token = Null THEN "jwt must be provided"
                                            ELSE IF token.sig # "valid"
                                            THEN "invalid signature"
                                            ELSE "jwt expired"]],
                       [key |-> "name", value |-> [text |-> decoded.name]]}] >>
           ELSE IF findById(store, decoded.userId) = Null
           THEN << jwtDecoded,
                   [level |-> "warn",
                    message |-> "SECURITY_EVENT: Authentication failed. User from token not found in DB.",
                    fields |-> {[key |-> "userId", value |-> [text |-> decoded.userId]]}] >>
           ELSE << jwtDecoded,
                   [level |-> "debug", message |-> "User authenticated successfully",
                    fields |-> {[key |-> "userId", value |-> [text |-> decoded.userId]]}] >>
  ELSE << [level |-> "warn",
           message |-> "SECURITY_EVENT: Authentication failed. No Bearer token provided in header.",
           fields |-> {}] >>

\* the logger calls of authMiddleware.authenticate, in the order made: each
\* with its level, its message and the fields of its metadata object; a
\* logged value is text, a boolean, or an object as it is
authenticateLog(h, store) ==
  IF h # NoHeader /\ startsWith(h, Bearer)
  THEN LET token == splitToken(h)
           decoded == jwtVerify(token)
           jwtDecoded ==
             [level |-> "debug", message |-> "JWT Decoded Successfully",
              fields |-> {[key |-> "decoded",
                           value |-> [userId |-> decoded.userId, role |-> decoded.role]]}]
       IN  IF ~decoded.ok
           THEN << [level |-> "error",
                    message |-> "SECURITY_EVENT: Token verification failed.",
                    fields |->
                      {[key |-> "tokenProvided", value |-> [bool |-> token # Null]],
                       [key |-> "error",
                        value |-> [text |-> IF token = Null THEN "jwt must be provided"
                                            ELSE IF token.sig # "valid"
                                            THEN "invalid signature"
                                            ELSE "jwt expired"]],
                       [key |-> "name", value |-> [text |-> decoded.name]]}] >>
           ELSE IF findById(store, decoded.userId) = Null
           THEN << jwtDecoded,
                   [level |-> "warn",
                    message |-> "SECURITY_EVENT: Authentication failed. User from token not found in DB.",
                    fields |-> {[key |-> "userId", value |-> [text |-> decoded.userId]]}] >>
           ELSE << jwtDecoded,
                   [level |-> "debug", message |-> "User authenticated successfully",
                    fields |-> {[key |-> "userId", value |-> [text |-> decoded.userId]]}] >>
  ELSE << [level |-> "warn",
           message |-> "SECURITY_EVENT: Authentication failed. No Bearer token provided in header.",
           fields |-> {}] >>

\* the stores a request can meet: each account absent, active or deactivated
InitAuthenticate ==
  /\ users \in [Ids -> {Null} \cup {InitUsers[u] : u \in Ids}
                        \cup {[InitUsers[u] EXCEPT !.isActive = FALSE] : u \in Ids}]
  /\ \A u \in Ids : users[u] # Null => users[u].role = InitUsers[u].role
  /\ usersBefore = users
  /\ patients = [p \in PatientIds |-> Null]
  /\ patientsBefore = [p \in PatientIds |-> Null]
  /\ last = NoRequest
  /\ call \in [header : Headers, effects : {Null}]

\* authenticate(req, res, next): everything it does, in order: its logger
\* calls, then the response or next()
Authenticate ==
  /\ call.effects = Null
  /\ call' = [call EXCEPT !.effects = Append(authenticateLog(call.header, users),
                                             authenticate(call.header, users))]
  /\ UNCHANGED <<users, usersBefore, patients, patientsBefore, last>>

SpecAuthenticate == InitAuthenticate /\ [][Authenticate]_vars

(***************************************************************************)
(* The two delete routes of the patient router, request by request         *)
(***************************************************************************)

InitDelete ==
  /\ users = InitUsers
  /\ usersBefore = InitUsers
  \* each patient absent, active, or already deactivated
  /\ patients \in [PatientIds ->
                     {Null, PatientDoc("a1", "D1"),
                      [PatientDoc("a1", "D1") EXCEPT !.isActive = FALSE]}]
  /\ patientsBefore = patients
  /\ last = NoRequest
  /\ call = Null

\* DELETE /patients/:id of the admin or the doctor; call keeps the ids the
\* request named
DeleteOne ==
  \E h \in {Header(Bearer, ValidToken(u)) : u \in Ids}, id \in RawPatientIds :
    LET a == authenticateToken(h, users)
        z == requireRole({"admin"}, a.user)
        c == canAccessPatient(a.userId, a.user, id, patients)
    IN  /\ a.next
        /\ patientsBefore' = patients
        /\ call' = [ids |-> {id}]
        /\ UNCHANGED <<users, usersBefore>>
        /\ IF ~z.next THEN RejectedPatient("DELETE /patients/:id", h, z)
           ELSE IF ~c.next
           THEN patients' = patients
                /\ last' = [Refused("DELETE /patients/:id", h, c) EXCEPT !.id = id]
           ELSE HandledPatient("DELETE /patients/:id", h, id,
                               deletePatientHandler(patients, a.userId, id))

\* DELETE /patients/bulk of the admin or the doctor
DeleteBulk ==
  \E h \in {Header(Bearer, ValidToken(u)) : u \in Ids}, ids \in BulkIds :
    LET a == authenticateToken(h, users)
        z == requireRole({"admin"}, a.user)
    IN  /\ a.next
        /\ patientsBefore' = patients
        /\ call' = [ids |-> ids]
        /\ UNCHANGED <<users, usersBefore>>
        /\ IF ~z.next THEN RejectedPatient("DELETE /patients/bulk", h, z)
           ELSE HandledPatient("DELETE /patients/bulk", h, Unread,
                               deleteBulkHandler(patients, ids))

NextDelete == DeleteOne \/ DeleteBulk

SpecDelete == InitDelete /\ [][NextDelete]_vars

(***************************************************************************)
(* Verification decisions in flight together                               *)
(***************************************************************************)

\* document.save(): the stored document after the modified paths of doc
\* are written to it, those assigned a value other than the one read (a new
\* Date always is one)
saveModified(current, read, doc) ==
  [f \in DOMAIN current |->
     IF doc[f] # read[f] \/ (f = "verificationDate" /\ doc[f].given) THEN doc[f]
     ELSE current[f]]

InitVerify ==
  /\ users = InitUsers
  /\ usersBefore = InitUsers
  /\ patients = [p \in PatientIds |-> Null]
  /\ patientsBefore = [p \in PatientIds |-> Null]
  /\ last = NoRequest
  /\ call = [requests |-> [r \in Requests |-> Null], order |-> << >>]

\* the handler of admin a1 for user b2 from its start to the await of the
\* save: validation, User.findById, the assignments to the document read
VerifyRead ==
  \E r \in Requests, body \in {b \in VerifyBodies : ~verifyValidationErrors(b)} :
    /\ call.requests[r] = Null
    /\ call' = [call EXCEPT !.requests[r] =
                  [pc |-> "read", body |-> body, read |-> users["b2"],
                   doc |-> verifyProfessionalHandler(users, "a1", RawId("b2", FALSE),
                                                     body).store["b2"]]]
    /\ UNCHANGED <<users, usersBefore, patients, patientsBefore, last>>

\* user.save() of a handler and its response
VerifySave ==
  \E r \in Requests :
    /\ call.requests[r] # Null
    /\ call.requests[r].pc = "read"
    /\ users' = [users EXCEPT !["b2"] =
                   saveModified(users["b2"], call.requests[r].read, call.requests[r].doc)]
    /\ usersBefore' = users
    /\ call' = [call EXCEPT !.requests[r].pc = "answered", !.order = Append(@, r)]
    /\ UNCHANGED <<patients, patientsBefore, last>>

NextVerify == VerifyRead \/ VerifySave

SpecVerify == InitVerify /\ [][NextVerify]_vars

(***************************************************************************)
(* PUT /users/:id field by field                                           *)
(***************************************************************************)

\* the fields of an account that PUT /users/:id guards, one of the fields
\* it lets every caller write, and the updatedBy stamp
ProfileDoc ==
  [role |-> "nurse", licenseNumber |-> "L1", licenseExpiry |-> "2027",
   isActive |-> TRUE, isVerified |-> FALSE, department |-> "D1",
   updatedBy |-> Absent]

\* the bodies of PUT /users/:id that pass validateUser: each field absent or
\* carrying a value other than the stored one; license "taken" is that of
\* another account
ProfileBodies ==
  [role : {Absent, Some("admin")},
   licenseNumber : {Absent, Some("L2"), Some("taken")},
   licenseExpiry : {Absent, Some("2031")},
   isActive : {Absent, Some(FALSE)},
   isVerified : {Absent, Some(TRUE)},
   department : {Absent, Some("D2")}]

\* the handler with the admin-only block applied for every caller
putUserFieldsForAnyone(reqRole, self, user, body) ==
  IF ~self /\ reqRole # "admin" THEN [status |-> 403, user |-> user]
  ELSE IF body.licenseNumber = Some("taken") THEN [status |-> 400, user |-> user]
  ELSE [status |-> 200,
        user |-> [user EXCEPT
          !.department = IF body.department.given THEN body.department.value ELSE @,
          !.role = IF body.role.given THEN body.role.value ELSE @,
          !.licenseNumber = IF body.licenseNumber.given THEN body.licenseNumber.value ELSE @,
          !.licenseExpiry = IF body.licenseExpiry.given THEN body.licenseExpiry.value ELSE @,
          !.isActive = IF body.isActive.given THEN body.isActive.value ELSE @,
          !.isVerified = IF body.isVerified.given THEN body.isVerified.value ELSE @,
          !.updatedBy = Some(reqRole)]]

\* handler of PUT /users/:id on the fields of ProfileDoc: the ownership
\* test, the duplicate check, updateFields, the admin-only block, the save
putUserFields(reqRole, self, user, body) ==
  IF ~self /\ reqRole # "admin" THEN [status |-> 403, user |-> user]
  ELSE IF body.licenseNumber = Some("taken") THEN [status |-> 400, user |-> user]
  ELSE LET admin == reqRole = "admin"
       IN  [status |-> 200,
            user |-> [user EXCEPT
              !.department = IF body.department.given THEN body.department.value ELSE @,
              !.role = IF admin /\ body.role.given THEN body.role.value ELSE @,
              !.licenseNumber =
                 IF admin /\ body.licenseNumber.given THEN body.licenseNumber.value ELSE @,
              !.licenseExpiry =
                 IF admin /\ body.licenseExpiry.given THEN body.licenseExpiry.value ELSE @,
              !.isActive = IF admin /\ body.isActive.given THEN body.isActive.value ELSE @,
              !.isVerified = IF admin /\ body.isVerified.given THEN body.isVerified.value ELSE @,
              !.updatedBy = Some(reqRole)]]

InitPut ==
  /\ users = InitUsers
  /\ usersBefore = InitUsers
  /\ patients = [p \in PatientIds |-> Null]
  /\ patientsBefore = [p \in PatientIds |-> Null]
  /\ last = NoRequest
  /\ call \in [reqRole : Roles, self : BOOLEAN, body : ProfileBodies, result : {Null}]

\* PUT /users/:id of a caller of role reqRole for the own or another account
PutUserFields ==
  /\ call.result = Null
  /\ call' = [call EXCEPT !.result =
                putUserFields(call.reqRole, call.self, ProfileDoc, call.body)]
  /\ UNCHANGED <<users, usersBefore, patients, patientsBefore, last>>

SpecPut == InitPut /\ [][PutUserFields]_vars

(***************************************************************************)
(* routes/auth.js: forgot-password and reset-password                      *)
(***************************************************************************)

\* lifetime of a reset token in milliseconds
ResetTokenLifetime == 3600000

\* most reset tokens issued in a behaviour
MaxTokens == 2

\* most advances of the clock in a behaviour
MaxTicks == 3

\* the password and reset fields of an account
Credentials(password, token, expires) ==
  [password |-> password, passwordResetToken |-> token, passwordResetExpires |-> expires]

\* the response of the auth router: status and body
Reply(code, body) == [status |-> code, body |-> body]

LinkSent == "If an account with that email exists, a password reset link has been sent"

\* forgot-password answering 404 when no account has the email
forgotPasswordReveals(accounts, email, issued, now) ==
  IF email = "not-an-email"
  THEN [accounts |-> accounts, issued |-> issued, reply |-> Reply(400, "Validation failed")]
  ELSE IF email \notin DOMAIN accounts
  THEN [accounts |-> accounts, issued |-> issued, reply |-> Reply(404, "User not found")]
  ELSE [accounts |-> [accounts EXCEPT ![email] =
                        [@ EXCEPT !.passwordResetToken = Some(issued + 1),
                                  !.passwordResetExpires = Some(now + ResetTokenLifetime)]],
        issued |-> issued + 1,
        reply |-> Reply(200, LinkSent)]

\* handler of POST /auth/forgot-password at time now with `issued` tokens
\* issued so far; crypto.randomBytes gives a token not issued before
forgotPasswordHandler(accounts, email, issued, now) ==
  IF email = "not-an-email"
  THEN [accounts |-> accounts, issued |-> issued, reply |-> Reply(400, "Validation failed")]
  ELSE IF email \notin DOMAIN accounts
  THEN [accounts |-> accounts, issued |-> issued, reply |-> Reply(200, LinkSent)]
  ELSE [accounts |-> [accounts EXCEPT ![email] =
                        [@ EXCEPT !.passwordResetToken = Some(issued + 1),
                                  !.passwordResetExpires = Some(now + ResetTokenLifetime)]],
        issued |-> issued + 1,
        reply |-> Reply(200, LinkSent)]

\* User.findOne({passwordResetToken: token, passwordResetExpires: {$gt: now}})
findByResetToken(accounts, token, now) ==
  {u \in DOMAIN accounts :
     /\ accounts[u].passwordResetToken = Some(token)
     /\ accounts[u].passwordResetExpires.given
     /\ accounts[u].passwordResetExpires.value > now}

\* reset-password leaving the token on the account
resetPasswordKeepsToken(accounts, token, password, now) ==
  IF password = "weak"
  THEN [accounts |-> accounts, reply |-> Reply(400, "Validation failed")]
  ELSE IF findByResetToken(accounts, token, now) = {}
  THEN [accounts |-> accounts, reply |-> Reply(400, "Invalid or expired reset token")]
  ELSE LET u == CHOOSE w \in findByResetToken(accounts, token, now) : TRUE
       IN  [accounts |-> [accounts EXCEPT ![u] = [@ EXCEPT !.password = password]],
            reply |-> Reply(200, "Password reset successful")]

\* handler of POST /auth/reset-password at time now
resetPasswordHandler(accounts, token, password, now) ==
  IF password = "weak"
  THEN [accounts |-> accounts, reply |-> Reply(400, "Validation failed")]
  ELSE IF findByResetToken(accounts, token, now) = {}
  THEN [accounts |-> accounts, reply |-> Reply(400, "Invalid or expired reset token")]
  ELSE LET u == CHOOSE w \in findByResetToken(accounts, token, now) : TRUE
       IN  [accounts |-> [accounts EXCEPT ![u] = Credentials(password, Absent, Absent)],
            reply |-> Reply(200, "Password reset successful")]

\* call holds the clock, the accounts, the tokens issued with their time of
\* issue, the tokens a reset succeeded with, and the request last answered
\* with what held before it
InitReset ==
  /\ users = InitUsers
  /\ usersBefore = InitUsers
  /\ patients = [p \in PatientIds |-> Null]
  /\ patientsBefore = [p \in PatientIds |-> Null]
  /\ last = NoRequest
  /\ call = [now |-> 0, ticks |-> 0,
             accounts |-> [u \in Ids |-> Credentials("Old-pw", Absent, Absent)],
             issued |-> 0, issuedAt |-> << >>, used |-> {},
             request |-> Null]

\* time passes: a millisecond, or a millisecond less than the lifetime
Tick ==
  \E d \in {1, ResetTokenLifetime - 1} :
    /\ call.ticks < MaxTicks
    /\ call' = [call EXCEPT !.now = @ + d, !.ticks = @ + 1]
    /\ UNCHANGED <<users, usersBefore, patients, patientsBefore, last>>

\* POST /auth/forgot-password, past the rate limiter
ForgotPassword ==
  \* the email of an account, one of no account, or text that is no email
  \E email \in Ids \cup {"nobody", "not-an-email"} :
    LET r == forgotPasswordHandler(call.accounts, email, call.issued, call.now)
    IN  /\ call.issued < MaxTokens
        /\ call' = [call EXCEPT
                      !.accounts = r.accounts,
                      !.issued = r.issued,
                      !.issuedAt = IF r.issued > call.issued THEN Append(@, call.now) ELSE @,
                      !.request = [route |-> "POST /auth/forgot-password",
                                   email |-> email, known |-> email \in Ids,
                                   reply |-> r.reply]]
        /\ UNCHANGED <<users, usersBefore, patients, patientsBefore, last>>

\* POST /auth/reset-password, past the rate limiter
ResetPassword ==
  \* an issued token or one never issued (0); password "weak" fails
  \* validateNewPassword
  \E token \in 0..MaxTokens, password \in {"New-pw-1", "New-pw-2", "weak"} :
    LET r == resetPasswordHandler(call.accounts, token, password, call.now)
    IN  /\ call' = [call EXCEPT
                      !.accounts = r.accounts,
                      !.used = IF r.reply.status = 200 THEN @ \cup {token} ELSE @,
                      !.request = [route |-> "POST /auth/reset-password",
                                   token |-> token, at |-> call.now,
                                   usedBefore |-> token \in call.used,
                                   passwordsBefore |->
                                     [u \in Ids |-> call.accounts[u].password],
                                   reply |-> r.reply]]
        /\ UNCHANGED <<users, usersBefore, patients, patientsBefore, last>>

NextReset == Tick \/ ForgotPassword \/ ResetPassword

SpecReset == InitReset /\ [][NextReset]_vars

(***************************************************************************)
(* models/Patient.js: the patientId of a new patient                       *)
(***************************************************************************)

\* width of the number in a generated patientId
PatientIdWidth == 7

\* most patients stored before the requests start
MaxStored == 2

RECURSIVE String(_)
\* String(n) of a natural number: its decimal digits
String(n) ==
  LET digit == <<"0", "1", "2", "3", "4", "5", "6", "7", "8", "9">>[(n % 10) + 1]
  IN  IF n < 10 THEN <<digit>> ELSE Append(String(n \div 10), digit)

RECURSIVE padStart(_, _, _)
\* String.prototype.padStart
padStart(str, width, fill) ==
  IF Len(str) >= width THEN str ELSE padStart(<<fill>> \o str, width, fill)

\* `P${String(count + 1).padStart(7, '0')}`
generatePatientId(count) == <<"P">> \o padStart(String(count + 1), PatientIdWidth, "0")

\* the pre-save hook: it generates the patientId from countDocuments()
\* unless the document has one
preSave(stored, req) ==
  [req EXCEPT !.pc = "hooked",
              !.patientId = IF req.body.given THEN req.body.value
                            ELSE generatePatientId(Cardinality(stored))]

\* the insert of the save and the response: the unique index on patientId
\* refuses a second document with the id, and the catch block answers 500
insertPatient(stored, req) ==
  IF req.patientId \in stored
  THEN [req EXCEPT !.pc = "answered", !.status = 500]
  ELSE [req EXCEPT !.pc = "answered", !.status = 201]

\* call holds the patientIds stored and the requests in flight, each with
\* pairwise distinct patient data
InitPatientId ==
  /\ users = InitUsers
  /\ usersBefore = InitUsers
  /\ patients = [p \in PatientIds |-> Null]
  /\ patientsBefore = [p \in PatientIds |-> Null]
  /\ last = NoRequest
  /\ \E n \in 0..MaxStored :
       call = [stored |-> {generatePatientId(k - 1) : k \in 1..n},
               requests |-> [r \in Requests |-> Null]]

\* POST /patients from its start to the await of patient.save(): the
\* validation and the findOne pre-check pass, the document is built
PatientBegin ==
  \* the body carries no patientId, or one of its own
  \E r \in Requests, id \in {Absent, Some(generatePatientId(MaxStored + 1))} :
    /\ call.requests[r] = Null
    /\ call' = [call EXCEPT !.requests[r] =
                  [pc |-> "built", body |-> id, patientId |-> << >>, status |-> 0]]
    /\ UNCHANGED <<users, usersBefore, patients, patientsBefore, last>>

\* the pre-save hook of patient.save(), up to the await of the insert
PatientPreSave ==
  \E r \in Requests :
    /\ call.requests[r] # Null
    /\ call.requests[r].pc = "built"
    /\ call' = [call EXCEPT !.requests[r] = preSave(call.stored, call.requests[r])]
    /\ UNCHANGED <<users, usersBefore, patients, patientsBefore, last>>

\* the insert of patient.save() and the response
PatientInsert ==
  \E r \in Requests :
    /\ call.requests[r] # Null
    /\ call.requests[r].pc = "hooked"
    /\ LET req == insertPatient(call.stored, call.requests[r])
       IN  call' = [call EXCEPT
                      !.requests[r] = req,
                      !.stored = IF req.status = 201 THEN @ \cup {req.patientId} ELSE @]
    /\ UNCHANGED <<users, usersBefore, patients, patientsBefore, last>>

NextPatientId == PatientBegin \/ PatientPreSave \/ PatientInsert

SpecPatientId == InitPatientId /\ [][NextPatientId]_vars

(***************************************************************************)
(* Properties                                                              *)
(***************************************************************************)

C2_MissingIdentityIs500 ==
  (call # Null /\ call.result # Null /\ (call.user = Null \/ call.user.role = NoRole))
    => call.result.status = 500 /\ ~call.result.next

\* authorize was applied to a request without req.user
C2_Witness ==
  call # Null /\ call.result # Null /\ call.user = Null /\ call.result.status = 500

\* C3: on a route guarded by authorize('admin') the handler runs only for an
\* identity whose role is admin; any other role is answered 403 and the
\* route neither reads nor writes the store.
C3_AuthorizeGuards ==
  LET guarded ==
        last.route \in {"GET /admin/admins",
                        "PATCH /admin/users/:id/verify-professional",
                        "DELETE /admin/users/:id"}
      role == usersBefore[last.header.token.userId].role
  IN  guarded =>
        /\ last.handlerRan => role \in {"admin"}
        /\ role \notin {"admin"} =>
             /\ last.status = 403
             /\ ~last.touched
             /\ last.returned = {}
             /\ users = usersBefore

\* a doctor was answered 403 on the verification route
C3_Witness ==
  /\ last.route = "PATCH /admin/users/:id/verify-professional"
  /\ usersBefore[last.header.token.userId].role = "doctor"
  /\ last.status = 403

\* C4: whether authenticate followed by authorize lets a request through
\* is decided by the role of the stored account at the time of the request
\* alone, whatever role the credential was issued with.
C4_StoredRoleDecides ==
  LET guarded ==
        last.route \in {"GET /admin/admins",
                        "PATCH /admin/users/:id/verify-professional",
                        "DELETE /admin/users/:id"}
      holder == last.header.token.userId
  IN  guarded =>
        IF usersBefore[holder].role = "admin" THEN last.handlerRan
        ELSE ~last.handlerRan /\ last.status = 403

\* a credential issued to a doctor passes authorize('admin') after the
\* account was made an admin, and one issued to an admin is refused after
\* the account was made a nurse
C4_Witness ==
  LET holder == last.header.token.userId
  IN  /\ last.route = "GET /admin/admins"
      /\ \/ /\ last.header.token.role = "doctor"
            /\ usersBefore[holder].role = "admin"
            /\ last.handlerRan
         \/ /\ last.header.token.role = "admin"
            /\ usersBefore[holder].role = "nurse"
            /\ last.status = 403

\* C5: a request that presents the unexpired credential of an account that
\* is not active is answered 401 and reaches no handler.
C5_InactiveIsRejected ==
  LET h == last.header
      inactive ==
        /\ last.route # "none"
        /\ h # NoHeader
        /\ h.scheme = Bearer
        /\ h.token # Null
        /\ h.token.sig = "valid"
        /\ ~h.token.expired
        /\ usersBefore[h.token.userId] # Null
        /\ ~usersBefore[h.token.userId].isActive
  IN  inactive => last.status = 401 /\ ~last.handlerRan

\* C6: on GET /users/:id and PUT /users/:id a request of a non-admin that
\* targets another account is answered 403, and the target is neither
\* returned nor changed.
C6_OtherAccountIsForbidden ==
  LET holder == last.header.token.userId
      other ==
        /\ last.route \in {"GET /users/:id", "PUT /users/:id"}
        /\ usersBefore[holder].role # "admin"
        /\ isValid(last.id)
        /\ castObjectId(last.id) # holder
  IN  other =>
        /\ last.status = 403
        /\ last.returned = {}
        /\ users = usersBefore

\* C7: a stored patient is returned or changed by a patient route only for
\* an admin or a doctor, for a nurse of the patient's department, or for the
\* front-desk account that created it.
C7_RelationshipCheck ==
  LET holder == last.header.token.userId
      patientRoutes ==
        {"GET /patients", "GET /patients/:id", "POST /patients",
         "PUT /patients/:id", "PATCH /patients/:id", "DELETE /patients/:id",
         "DELETE /patients/bulk"}
      allowed(patient) ==
        \/ users[holder].role \in {"admin", "doctor"}
        \/ users[holder].role = "nurse" /\ patient.department = users[holder].department
        \/ users[holder].role = "front-desk" /\ patient.createdBy = holder
  IN  (last.route \in patientRoutes /\ last.handlerRan) =>
        \A p \in PatientIds :
          (/\ patientsBefore[p] # Null
           /\ (p \in last.returned \/ patients[p] # patientsBefore[p]))
            => allowed(patientsBefore[p])

\* C8: a patient goes from active to inactive only by a request of an admin.
C8_OnlyAdminDeactivates ==
  \A p \in PatientIds :
    (/\ patientsBefore[p] # Null
     /\ patientsBefore[p].isActive
     /\ ~patients[p].isActive)
      => users[last.header.token.userId].role = "admin"

C10_NoSelfDeactivation ==
  \A u \in Ids :
    (/\ usersBefore[u] # Null
     /\ usersBefore[u].role = "admin"
     /\ usersBefore[u].isActive
     /\ (users[u] = Null \/ ~users[u].isActive))
      => (last.header = NoHeader \/ last.header.token = Null
            \/ last.header.token.userId # u)

\* C11: an admin request that targets the admin's own account on DELETE
\* /admin/users/:id, DELETE /users/:id or PATCH
\* /admin/users/:id/verify-professional is answered 403.
C11_SelfTargetIsForbidden ==
  LET selfTarget ==
        /\ last.route \in {"DELETE /admin/users/:id", "DELETE /users/:id",
                           "PATCH /admin/users/:id/verify-professional"}
        /\ last.handlerRan
        /\ isValid(last.id)
        /\ castObjectId(last.id) = last.header.token.userId
        /\ usersBefore[last.header.token.userId].role = "admin"
  IN  selfTarget => last.status = 403

C13_OnlyAdminDecides ==
  \A u \in Ids :
    (/\ users[u] # Null
     /\ users[u].status \in {"verified", "rejected"}
     /\ (usersBefore[u] = Null \/ usersBefore[u].status # users[u].status))
      => /\ last.header # NoHeader
         /\ last.header.token # Null
         /\ usersBefore[last.header.token.userId] # Null
         /\ usersBefore[last.header.token.userId].role = "admin"

\* an account that registered as a doctor, with a professionalVerification
\* key in the body, was saved as pending and then verified by the admin
C13_Witness ==
  /\ last.route = "PATCH /admin/users/:id/verify-professional"
  /\ last.status = 200
  /\ usersBefore["b2"] # Null
  /\ usersBefore["b2"].status = "pending"
  /\ users["b2"].status = "verified"
  /\ usersBefore[last.header.token.userId].role = "admin"

\* C14: a stored user whose verification status is rejected has a
\* non-empty rejection reason, and a verify-professional request with
\* status rejected and no usable reason is answered 400 and changes nothing.
C14_RejectedHasReason ==
  \A u \in Ids :
    (users[u] # Null /\ users[u].status = "rejected")
      => /\ users[u].rejectionReason.given
         /\ users[u].rejectionReason.value # ""

C16_NonAdminSeesMasked ==
  (last.route \in {"GET /patients", "GET /patients/:id"} /\ last.status = 200) =>
    \A p \in last.returned :
      IF users[last.header.token.userId].role = "admin"
      THEN /\ last.details[p].phoneNumber = Some(patients[p].phoneNumber)
           /\ last.details[p].email = Some(patients[p].email)
      ELSE /\ last.details[p].phoneNumber # Some(patients[p].phoneNumber)
           /\ last.details[p].email # Some(patients[p].email)
           /\ last.details[p].nationalId # Some(patients[p].nationalId)

\* C17: a list request whose page or limit is not an integer, is zero or
\* negative, or whose limit is above 100, is answered 400; every query that
\* reaches the store has page >= 1, 1 <= limit <= 100 and
\* skip = (page - 1) * limit.
C17_PaginationIsValidated ==
  LET badNumber(param) ==
        param.given /\ (param.value.kind # "int" \/ param.value.n <= 0)
      result == call.result
  IN  (call # Null /\ result # Null) =>
        /\ (badNumber(call.page) \/ badNumber(call.limit)
               \/ (call.limit.given /\ call.limit.value.n > 100))
             => result.status = 400
        /\ result.status = 200 =>
             /\ result.page >= 1
             /\ result.limit >= 1
             /\ result.limit <= 100
             /\ result.skip = (result.page - 1) * result.limit

\* C18: a list request with a filter or sort parameter outside the
\* whitelist of the resource is answered 400, and no key outside the
\* whitelist is part of the predicate or the sort handed to the store.
C18_UnknownKeysAreRejected ==
  LET result == call.result
  IN  (call # Null /\ result # Null) =>
        /\ (~(call.filters \subseteq readKeys(call.route))
               \/ (call.sort.given /\ call.sort.value = "password"))
             => result.status = 400
        /\ result.predicate \subseteq readKeys(call.route)
        /\ result.sort # "password"

\* C19: a create request whose unique key collides with a stored record is
\* answered 400 with the generic message, also when the store finds the
\* collision at save time; it is never answered 500 or with the store's
\* error text.
C19_CollisionIs400 ==
  \A r \in Requests :
    (/\ call # Null
     /\ call.requests[r] # Null
     /\ call.requests[r].pc = "answered"
     /\ call.requests[r].collided)
      => /\ call.requests[r].status = 400
         /\ call.requests[r].body = "already exists"

\* C20: on a route with a record identifier in its path, a malformed
\* identifier is answered 400 and a well-formed identifier of no stored
\* record is answered 404; neither is answered 500 or changes the store.
C20_BadIdentifiers ==
  LET withId ==
        /\ last.route \in {"PATCH /admin/users/:id/verify-professional",
                           "DELETE /admin/users/:id", "GET /users/:id",
                           "PUT /users/:id", "DELETE /users/:id"}
        /\ last.handlerRan
        /\ usersBefore[last.header.token.userId].role = "admin"
  IN  /\ (withId /\ ~isValid(last.id))
           => last.status = 400 /\ users = usersBefore
      /\ (withId /\ isValid(last.id) /\ last.touched
             /\ usersBefore[castObjectId(last.id)] = Null)
           => last.status = 404 /\ users = usersBefore

\* C21: a failure of the audit call never aborts a request: when the
\* mutation was saved, the request is answered with its success status
\* whether or not the audit call failed.
C21_AuditFailureDoesNotAbort ==
  (call # Null /\ call.result # Null /\ call.result.saved)
    => call.result.status = successStatus(call.route)

\* the security events among the effects of a call of authenticate
C22_SecurityEvents ==
  {i \in 1..(Len(call.effects) - 1) :
     call.effects[i].level \in {"warn", "error"}}

\* the category a security event tells: the message, and the error name
\* where the entry carries one
C22_Category(entry) ==
  IF \E f \in entry.fields : f.key = "name"
  THEN (CHOOSE f \in entry.fields : f.key = "name").value.text
  ELSE entry.message

\* the defect of a header, as the claim names them
C22_Defect(h, store) ==
  IF h = NoHeader \/ ~startsWith(h, Bearer) THEN "no-token"
  ELSE IF h.token = Null THEN "empty-token"
  ELSE IF h.token.sig # "valid" THEN "invalid-signature"
  ELSE IF h.token.expired THEN "expired"
  ELSE IF findById(store, h.token.userId) = Null THEN "user-missing"
  ELSE "none"

C22_CategoryOf ==
  [d \in {"no-token", "invalid-signature", "expired", "user-missing"} |->
     CASE d = "no-token" ->
            "SECURITY_EVENT: Authentication failed. No Bearer token provided in header."
       [] d = "invalid-signature" -> "JsonWebTokenError"
       [] d = "expired" -> "TokenExpiredError"
       [] d = "user-missing" ->
            "SECURITY_EVENT: Authentication failed. User from token not found in DB."]

\* C22: every request authenticate rejects has a security event logged
\* before its 401, the event tells no-token, invalid-signature, expired and
\* user-missing apart, and no log entry holds the raw credential.
C22_RejectionsAreLogged ==
  (call # Null /\ call.effects # Null) =>
    LET answer == call.effects[Len(call.effects)]
        defect == C22_Defect(call.header, users)
    IN  /\ (~answer.next) =>
              /\ answer.status = 401
              /\ Cardinality(C22_SecurityEvents) = 1
              /\ defect \in DOMAIN C22_CategoryOf =>
                    \A i \in C22_SecurityEvents :
                       C22_Category(call.effects[i]) = C22_CategoryOf[defect]
        /\ \A d1, d2 \in DOMAIN C22_CategoryOf :
              d1 # d2 => C22_CategoryOf[d1] # C22_CategoryOf[d2]
        /\ (call.header # NoHeader) =>
              \A i \in 1..(Len(call.effects) - 1) :
                 \A f \in call.effects[i].fields :
                    /\ f.value # call.header.token
                    /\ f.value # call.header

\* a forged credential was refused and the refusal logged
C22_Witness ==
  /\ call # Null /\ call.effects # Null
  /\ C22_Defect(call.header, users) = "invalid-signature"
  /\ ~call.effects[Len(call.effects)].next
  /\ C22_SecurityEvents # {}

\* the stored patients a delete request named by a well-formed id
C23_Targeted ==
  {p \in PatientIds : \E id \in call.ids : isValid(id) /\ castObjectId(id) = p}

C29_BulkCounts ==
  (call # Null /\ last.route = "DELETE /patients/bulk" /\ last.status = 200) =>
    /\ last.details.notFoundCount =
         Cardinality({id \in call.ids :
                        isValid(id) /\ patientsBefore[castObjectId(id)] = Null})
    /\ last.details.deactivatedCount =
         Cardinality({p \in PatientIds :
                        /\ patientsBefore[p] # Null /\ patientsBefore[p].isActive
                        /\ ~patients[p].isActive})
    /\ last.details.invalidIdCount =
         Cardinality({id \in call.ids : ~isValid(id)})

\* C24: when PATCH verify-professional requests for one user interleave,
\* the record stored after all of them saved is the record the request that
\* saved last would have produced alone: its status, its reason, its
\* verifier stamps and its isGovernmentVerified flag.
C24_LastWriterWins ==
  (\A r \in Requests : call.requests[r] # Null /\ call.requests[r].pc = "answered") =>
    LET lastSaver == call.requests[call.order[Len(call.order)]]
    IN  users["b2"] =
          verifyProfessionalHandler(users, "a1", RawId("b2", FALSE),
                                    lastSaver.body).store["b2"]

\* C25: PUT /users/:id by a caller who is not an admin leaves role,
\* licenseNumber, licenseExpiry, isActive and isVerified of the target as
\* they were, whatever the body carries for them.
C25_NonAdminCannotWriteGuardedFields ==
  (call # Null /\ call.result # Null /\ call.reqRole # "admin") =>
    \A f \in {"role", "licenseNumber", "licenseExpiry", "isActive", "isVerified"} :
       call.result.user[f] = ProfileDoc[f]

\* a nurse updated the own account with a body that carries every guarded
\* field, and the update was saved
C25_Witness ==
  /\ call # Null /\ call.result # Null
  /\ call.reqRole = "nurse" /\ call.self
  /\ call.result.status = 200
  /\ call.body.role.given /\ call.body.licenseNumber.given
  /\ call.body.licenseExpiry.given /\ call.body.isActive.given
  /\ call.body.isVerified.given
  /\ call.result.user.department = "D2"

\* C26: an admin account comes into existence only through a request of an
\* authenticated admin (POST /users, or PUT /users/:id changing the role):
\* no other request creates an admin account or raises a role to admin.
C26_AdminOnlyThroughAdmin ==
  \A u \in Ids :
    (/\ users[u] # Null /\ users[u].role = "admin"
     /\ (usersBefore[u] = Null \/ usersBefore[u].role # "admin"))
      => /\ last.route \in {"POST /users", "PUT /users/:id"}
         /\ last.header # NoHeader
         /\ last.header.token # Null
         /\ jwtVerify(last.header.token).ok
         /\ usersBefore[last.header.token.userId] # Null
         /\ usersBefore[last.header.token.userId].role = "admin"

\* the request last answered was a reset-password
C27_ResetAnswered ==
  call.request # Null /\ call.request.route = "POST /auth/reset-password"

\* C27: a reset token is single-use and time-limited: a reset-password
\* request with a token that an earlier reset succeeded with, or with a
\* token issued an hour or more ago, is answered 400 and changes no
\* password.
C27_TokenIsSingleUseAndExpires ==
  (/\ C27_ResetAnswered
   /\ \/ call.request.usedBefore
      \/ /\ call.request.token \in 1..call.issued
         /\ call.request.at >= call.issuedAt[call.request.token] + ResetTokenLifetime)
    => /\ call.request.reply.status = 400
       /\ \A u \in Ids : call.accounts[u].password = call.request.passwordsBefore[u]

\* a reset with a token that was used before was refused
C27_Witness ==
  /\ C27_ResetAnswered
  /\ call.request.usedBefore
  /\ call.request.reply = Reply(400, "Invalid or expired reset token")

\* a reset with a token exactly one hour old was refused
C27_WitnessExpired ==
  /\ C27_ResetAnswered
  /\ call.request.token \in 1..call.issued
  /\ ~call.request.usedBefore
  /\ call.request.at = call.issuedAt[call.request.token] + ResetTokenLifetime
  /\ call.request.reply.status = 400

\* C30: POST /auth/forgot-password answers a well-formed email with the
\* same status and the same body whether or not an account has the email.
C30_ForgotPasswordTellsNothing ==
  (call.request # Null /\ call.request.route = "POST /auth/forgot-password"
     /\ call.request.email # "not-an-email")
    => call.request.reply = Reply(200, LinkSent)

\* forgot-password was answered for the email of an account, and a token
\* was issued to it
C30_Witness ==
  /\ call.request # Null /\ call.request.route = "POST /auth/forgot-password"
  /\ call.request.known
  /\ \E u \in Ids : call.accounts[u].passwordResetToken = Some(call.issued)

====
